---- MODULE Spec2Model ----
(***************************************************************************)
(* Model of explore_bqss.data.fetch_bqss_data: the cache-or-download       *)
(* loader of the three BQSS datasets (valeur, finess, metadata).           *)
(*                                                                         *)
(* A cell of a table or of a file is a record [t, v]: t is the type of the *)
(* value ("int", "float", "bool", "str", "null", and "text" for a field of *)
(* a CSV file, which carries no type) and v its literal.                   *)
(***************************************************************************)
EXTENDS Naturals, Sequences, FiniteSets, TLC

VARIABLES
    dir_state,  \* cache_dir on the file system: "missing", "read_only", "writable"
    disk,       \* the files of cache_dir: path -> file, NoFile when absent
    remote,     \* the resource served at each dataset's url
    reachable,  \* whether each dataset's url answers with that resource
    active,     \* the invocations of fetch_bqss_data that run
    call,       \* per invocation: position in the loop, locals, outcome
    prev        \* the last invocation that ended before the current one began

vars == <<dir_state, disk, remote, reachable, active, call, prev>>

-----------------------------------------------------------------------------
(* Bounds of the model *)

\* rows of an enumerated remote resource
MaxRows == 2

\* invocations of fetch_bqss_data that may exist
Procs == {"p1", "p2"}

-----------------------------------------------------------------------------
(* The registry: data.py lines 19-32 *)

\* mutant of df_metadata: finess listed first
df_metadata_finess_first == <<"finess", "valeur", "metadata">>

df_metadata == <<"valeur", "finess", "metadata">>

Datasets == {df_metadata[k] : k \in DOMAIN df_metadata}

\* position of a dataset in the registry
RegistryIndex(d) == CHOOSE k \in DOMAIN df_metadata : df_metadata[k] = d

\* the branch of line 38: every dataset but finess is handled as CSV
FormatOf(d) == IF d # "finess" THEN "csv" ELSE "parquet"

Formats == {"csv", "parquet"}

\* a path below cache_dir is <<stem, extension>>: cache_dir / f"{stem}.{extension}"
Paths == Datasets \X Formats

\* mutant of local_path: one extension for every dataset
local_path_csv(d) == <<d, "csv">>

\* lines 39 and 46
local_path(d) == <<d, FormatOf(d)>>

-----------------------------------------------------------------------------
(* Cells, files and tables *)

Cell(t, v) == [t |-> t, v |-> v]

Null == Cell("null", "")

Range(s) == {s[k] : k \in DOMAIN s}

NoFile == [fmt |-> "none", columns |-> <<>>, data |-> <<>>, index_columns |-> {}]

NoTable == [engine |-> "none", columns |-> <<>>, data |-> <<>>, index |-> <<>>]

\* a CSV text with one column, header "col", and the given fields
CsvText(fields) ==
    [fmt |-> "csv", columns |-> <<"col">>,
     data |-> <<[k \in DOMAIN fields |-> Cell("text", fields[k])]>>,
     index_columns |-> {}]

\* a parquet file with one data column "col"; with_index: the file was written
\* from a frame with a materialised index, stored as column __index_level_0__
\* and named as index in the pandas metadata of the file
ParquetFile(cells, with_index) ==
    [fmt |-> "parquet",
     columns |-> IF with_index THEN <<"col", "__index_level_0__">> ELSE <<"col">>,
     data |-> IF with_index
              THEN <<cells, [k \in DOMAIN cells |-> Cell("int", "2")]>>
              ELSE <<cells>>,
     index_columns |-> IF with_index THEN {"__index_level_0__"} ELSE {}]

-----------------------------------------------------------------------------
(* pandas.read_csv / DataFrame.to_csv: data.py lines 41, 42, 44 *)

\* fields read_csv takes for a missing value
NaValues == {"", "NA"}

IsInt(tok) == tok \in {"1", "01", "2"}

IsFloat(tok) == tok \in {"1.0", "1.50", "1.5", "2.0"}

IsBool(tok) == tok \in {"True", "true", "False"}

\* int("01") = 1
IntLiteral(tok) == IF tok = "01" THEN "1" ELSE tok

\* float of a numeric field, printed as repr prints it
FloatLiteral(tok) ==
    CASE IntLiteral(tok) = "1" -> "1.0"
      [] IntLiteral(tok) = "2" -> "2.0"
      [] tok = "1.50" -> "1.5"
      [] OTHER -> tok

BoolLiteral(tok) == IF tok = "true" THEN "True" ELSE tok

\* type inference of read_csv over one column of fields
InferColumn(fields) ==
    LET present == {k \in DOMAIN fields : fields[k] \notin NaValues}
        has_na  == present # DOMAIN fields
        kind == IF \A k \in present : IsInt(fields[k])
                  THEN (IF has_na THEN "float" ELSE "int")
                ELSE IF \A k \in present : IsInt(fields[k]) \/ IsFloat(fields[k])
                  THEN "float"
                ELSE IF \A k \in present : IsBool(fields[k])
                  THEN "bool"
                ELSE "str"
    IN [k \in DOMAIN fields |->
          IF k \notin present THEN Null
          ELSE CASE kind = "int"   -> Cell("int", IntLiteral(fields[k]))
                 [] kind = "float" -> Cell("float", FloatLiteral(fields[k]))
                 [] kind = "bool"  -> Cell("bool", BoolLiteral(fields[k]))
                 [] OTHER          -> Cell("str", fields[k])]

pd_read_csv(file) ==
    [engine |-> "pandas",
     columns |-> file.columns,
     data |-> [j \in DOMAIN file.data |->
                 InferColumn([k \in DOMAIN file.data[j] |-> file.data[j][k].v])],
     index |-> <<>>]

\* to_csv(index=False): a missing value is written as the empty field
to_csv(df) ==
    [fmt |-> "csv",
     columns |-> df.columns,
     data |-> [j \in DOMAIN df.data |->
                 [k \in DOMAIN df.data[j] |->
                    Cell("text", IF df.data[j][k].t = "null" THEN "" ELSE df.data[j][k].v)]],
     index_columns |-> {}]

-----------------------------------------------------------------------------
(* pandas.read_parquet / DataFrame.to_parquet / polars.read_parquet:       *)
(* data.py lines 48, 49, 51                                                *)

\* a column of integers with a missing value becomes float64 in pandas
ArrowToPandas(cells) ==
    IF Null \in Range(cells)
    THEN [k \in DOMAIN cells |->
            IF cells[k].t = "int" THEN Cell("float", FloatLiteral(cells[k].v))
            ELSE cells[k]]
    ELSE cells

\* pandas restores as index the column the file's pandas metadata names
pd_read_parquet(file) ==
    LET value_cols == SelectSeq([j \in DOMAIN file.columns |-> j],
                                LAMBDA j : file.columns[j] \notin file.index_columns)
        index_cols == SelectSeq([j \in DOMAIN file.columns |-> j],
                                LAMBDA j : file.columns[j] \in file.index_columns)
    IN [engine |-> "pandas",
        columns |-> [n \in DOMAIN value_cols |-> file.columns[value_cols[n]]],
        data |-> [n \in DOMAIN value_cols |-> ArrowToPandas(file.data[value_cols[n]])],
        index |-> IF index_cols = <<>> THEN <<>> ELSE file.data[index_cols[1]]]

\* to_parquet(index=None): a RangeIndex goes to the metadata alone, any other
\* index is written as the column __index_level_0__
to_parquet(df) ==
    [fmt |-> "parquet",
     columns |-> IF df.index = <<>> THEN df.columns
                 ELSE Append(df.columns, "__index_level_0__"),
     data |-> IF df.index = <<>> THEN df.data ELSE Append(df.data, df.index),
     index_columns |-> IF df.index = <<>> THEN {} ELSE {"__index_level_0__"}]

\* polars reads every column of the file and knows no index
pl_read_parquet(file) ==
    [engine |-> "polars", columns |-> file.columns, data |-> file.data, index |-> <<>>]

-----------------------------------------------------------------------------
(* The body of the loop of fetch_bqss_data: data.py lines 35-52 *)

\* line 41 / line 48: the reader given the url
NetworkReader(d) == IF d # "finess" THEN "pd.read_csv" ELSE "pd.read_parquet"

\* line 42 / line 49: the writer given local_path
CacheWriter(d) == IF d # "finess" THEN "to_csv" ELSE "to_parquet"

\* line 44 / line 51: the reader given local_path
CacheReader(d) == IF d # "finess" THEN "pd.read_csv" ELSE "pl.read_parquet"

\* what each library call reads or writes
FormatOfCall(fn) == IF fn \in {"pd.read_csv", "to_csv"} THEN "csv" ELSE "parquet"

ReadWith(fn, file) ==
    CASE fn = "pd.read_csv"     -> pd_read_csv(file)
      [] fn = "pd.read_parquet" -> pd_read_parquet(file)
      [] fn = "pl.read_parquet" -> pl_read_parquet(file)

WriteWith(fn, df) ==
    CASE fn = "to_csv"     -> to_csv(df)
      [] fn = "to_parquet" -> to_parquet(df)

\* mutant of CacheHit: every dataset is downloaded again
CacheHit_never(d) == FALSE

\* mutant of CacheHit: a cache file counts only while it matches the source
CacheHit_fresh(d) ==
    /\ disk[local_path(d)] # NoFile
    /\ disk[local_path(d)] =
          WriteWith(CacheWriter(d), ReadWith(NetworkReader(d), remote[d]))

\* line 40 / line 47: local_path.exists()
CacheHit(d) == disk[local_path(d)] # NoFile

\* mutant of CanWrite: a read-only directory takes the file
CanWrite_unlessMissing == dir_state # "missing"

\* the directory accepts a new file: the write of line 42 / line 49 raises
\* OSError otherwise
CanWrite == dir_state = "writable"

EmptyBundle == [d \in Datasets |-> NoTable]

Keys(bundle) == {d \in Datasets : bundle[d] # NoTable}

IdleCall ==
    [pc |-> "idle", i |-> 1, df |-> NoTable, df_dict |-> EmptyBundle,
     outcome |-> "none", failed |-> "none", returned |-> FALSE,
     result |-> EmptyBundle, trace |-> <<>>,
     start |-> [path \in Paths |-> NoFile],
     up |-> [d \in Datasets |-> FALSE]]

Op(kind, d, path, fn) == [op |-> kind, name |-> d, path |-> path, fn |-> fn]

\* mutant of Raise: the failure ends the loop and the tables loaded so far
\* are returned
Raise_partial(c, kind) ==
    [c EXCEPT !.pc = "done", !.outcome = kind, !.failed = df_metadata[c.i],
              !.returned = TRUE, !.result = c.df_dict]

\* an exception leaves the function: nothing catches it in lines 34-53
Raise(c, kind) ==
    [c EXCEPT !.pc = "done", !.outcome = kind, !.failed = df_metadata[c.i]]

\* lines 34-37: a new invocation starts on the first registry entry
Begin(p) ==
    /\ call[p].pc \in {"idle", "done"}
    /\ call' = [call EXCEPT ![p] =
                  [IdleCall EXCEPT !.pc = "exists", !.start = disk, !.up = reachable]]
    /\ prev' = IF call[p].pc = "done" THEN call[p] ELSE prev
    /\ UNCHANGED <<dir_state, disk, remote, reachable, active>>

\* lines 39-40 and 46-47
Exists(p) ==
    LET c == call[p]
        d == df_metadata[c.i]
    IN /\ c.pc = "exists"
       /\ call' = [call EXCEPT ![p] =
                     [c EXCEPT !.pc = IF CacheHit(d) THEN "read" ELSE "fetch",
                               !.trace = Append(@, Op("exists", d, local_path(d), "exists"))]]
       /\ UNCHANGED <<dir_state, disk, remote, reachable, active, prev>>

\* mutant of Fetch: a failed retrieval removes what the call has written
Fetch_cleanup(p) ==
    LET c == call[p]
        d == df_metadata[c.i]
        c1 == [c EXCEPT !.trace = Append(@, Op("request", d, <<d, "url">>, NetworkReader(d)))]
    IN /\ c.pc = "fetch"
       /\ IF reachable[d]
          THEN /\ disk' = disk
               /\ call' = [call EXCEPT ![p] =
                             [c1 EXCEPT !.pc = "store",
                                        !.df = ReadWith(NetworkReader(d), remote[d])]]
          ELSE /\ disk' = c.start
               /\ call' = [call EXCEPT ![p] = Raise(c1, "RetrievalFailure")]
       /\ UNCHANGED <<dir_state, remote, reachable, active, prev>>

\* line 41 / line 48
Fetch(p) ==
    LET c == call[p]
        d == df_metadata[c.i]
        c1 == [c EXCEPT !.trace = Append(@, Op("request", d, <<d, "url">>, NetworkReader(d)))]
    IN /\ c.pc = "fetch"
       /\ call' = [call EXCEPT ![p] =
                     IF reachable[d]
                     THEN [c1 EXCEPT !.pc = "store",
                                     !.df = ReadWith(NetworkReader(d), remote[d])]
                     ELSE Raise(c1, "RetrievalFailure")]
       /\ UNCHANGED <<dir_state, disk, remote, reachable, active, prev>>

\* mutant of Store: the write is skipped when the file has appeared since
\* the check
Store_recheck(p) ==
    LET c == call[p]
        d == df_metadata[c.i]
        c1 == [c EXCEPT !.trace = Append(@, Op("write", d, local_path(d), CacheWriter(d)))]
    IN /\ c.pc = "store"
       /\ IF disk[local_path(d)] # NoFile
          THEN /\ disk' = disk
               /\ call' = [call EXCEPT ![p] = [c EXCEPT !.pc = "insert"]]
          ELSE IF CanWrite
          THEN /\ disk' = [disk EXCEPT ![local_path(d)] = WriteWith(CacheWriter(d), c.df)]
               /\ call' = [call EXCEPT ![p] = [c1 EXCEPT !.pc = "insert"]]
          ELSE /\ disk' = disk
               /\ call' = [call EXCEPT ![p] = Raise(c1, "StorageFailure")]
       /\ UNCHANGED <<dir_state, remote, reachable, active, prev>>

\* line 42 / line 49
Store(p) ==
    LET c == call[p]
        d == df_metadata[c.i]
        c1 == [c EXCEPT !.trace = Append(@, Op("write", d, local_path(d), CacheWriter(d)))]
    IN /\ c.pc = "store"
       /\ IF CanWrite
          THEN /\ disk' = [disk EXCEPT ![local_path(d)] = WriteWith(CacheWriter(d), c.df)]
               /\ call' = [call EXCEPT ![p] = [c1 EXCEPT !.pc = "insert"]]
          ELSE /\ disk' = disk
               /\ call' = [call EXCEPT ![p] = Raise(c1, "StorageFailure")]
       /\ UNCHANGED <<dir_state, remote, reachable, active, prev>>

\* line 44 / line 51
Read(p) ==
    LET c == call[p]
        d == df_metadata[c.i]
    IN /\ c.pc = "read"
       /\ call' = [call EXCEPT ![p] =
                     [c EXCEPT !.pc = "insert",
                               !.df = ReadWith(CacheReader(d), disk[local_path(d)]),
                               !.trace = Append(@, Op("read", d, local_path(d), CacheReader(d)))]]
       /\ UNCHANGED <<dir_state, disk, remote, reachable, active, prev>>

\* line 52, then the next registry entry or the return of line 53
Insert(p) ==
    LET c == call[p]
        d == df_metadata[c.i]
        dict == [c.df_dict EXCEPT ![d] = c.df]
    IN /\ c.pc = "insert"
       /\ call' = [call EXCEPT ![p] =
                     IF c.i < Len(df_metadata)
                     THEN [c EXCEPT !.pc = "exists", !.i = @ + 1, !.df_dict = dict]
                     ELSE [c EXCEPT !.pc = "done", !.df_dict = dict, !.outcome = "ok",
                                    !.returned = TRUE, !.result = dict]]
       /\ UNCHANGED <<dir_state, disk, remote, reachable, active, prev>>

\* between invocations the remote sources come and go
NetworkChange ==
    /\ \A p \in active : call[p].pc \in {"idle", "done"}
    /\ \E up \in [Datasets -> BOOLEAN] :
          /\ up # reachable
          /\ reachable' = up
    /\ UNCHANGED <<dir_state, disk, remote, active, call, prev>>

-----------------------------------------------------------------------------
(* Initial states *)

\* the resources the portal may serve
RemoteCsvSamples == {CsvText(<<"01", "NA">>), CsvText(<<"true", "a">>)}

RemoteParquetSamples ==
    {ParquetFile(<<Cell("int", "1"), Null>>, FALSE),
     ParquetFile(<<Cell("str", "a")>>, TRUE)}

RemoteSamples(d) == IF FormatOf(d) = "csv" THEN RemoteCsvSamples ELSE RemoteParquetSamples

\* a cache file an earlier run left, written when the portal served other data
OldFile(d) ==
    IF FormatOf(d) = "csv"
    THEN to_csv(pd_read_csv(CsvText(<<"2">>)))
    ELSE to_parquet(pd_read_parquet(ParquetFile(<<Cell("float", "2.0")>>, FALSE)))

InitDisk(cached) ==
    [path \in Paths |->
       IF \E d \in cached : path = local_path(d) THEN OldFile(path[1]) ELSE NoFile]

InitCalls ==
    /\ active = {"p1"}
    /\ call = [p \in Procs |-> IdleCall]
    /\ prev = IdleCall

Init ==
    /\ dir_state \in {"missing", "read_only", "writable"}
    /\ \E cached \in SUBSET Datasets :
          /\ dir_state = "missing" => cached = {}
          /\ disk = InitDisk(cached)
    /\ remote \in [Datasets -> UNION {RemoteSamples(d) : d \in Datasets}]
    /\ \A d \in Datasets : remote[d] \in RemoteSamples(d)
    /\ reachable \in [Datasets -> BOOLEAN]
    /\ InitCalls

Next ==
    \/ \E p \in active : Begin(p)
    \/ \E p \in active : Exists(p)
    \/ \E p \in active : Fetch(p)
    \/ \E p \in active : Store(p)
    \/ \E p \in active : Read(p)
    \/ \E p \in active : Insert(p)
    \/ NetworkChange

Spec == Init /\ [][Next]_vars

-----------------------------------------------------------------------------
(* Round trip of the cache formats: every resource of at most MaxRows rows *)
(* is served for one dataset, on an empty writable cache and a working     *)
(* network                                                                 *)

SeqsUpTo(S, n) == UNION {[1..m -> S] : m \in 0..n}

CsvFields == {"", "NA", "1", "01", "1.0", "1.50", "true", "a"}

AllCsv == {CsvText(fields) : fields \in SeqsUpTo(CsvFields, MaxRows)}

ParquetCells ==
    {Null, Cell("int", "1"), Cell("float", "1.5"), Cell("str", "a"), Cell("bool", "True")}

\* a parquet column holds values of one type, and missing values
ParquetColumns ==
    {cells \in SeqsUpTo(ParquetCells, MaxRows) :
        Cardinality({cells[k].t : k \in DOMAIN cells} \ {"null"}) <= 1}

AllParquet ==
    {ParquetFile(cells, FALSE) : cells \in ParquetColumns}
    \cup {ParquetFile(cells, TRUE) : cells \in ParquetColumns \ {<<>>}}

AllRemote(d) == IF FormatOf(d) = "csv" THEN AllCsv ELSE AllParquet

DefaultRemote(d) ==
    IF FormatOf(d) = "csv" THEN CsvText(<<"1">>)
    ELSE ParquetFile(<<Cell("int", "1")>>, FALSE)

InitRT ==
    /\ dir_state = "writable"
    /\ disk = InitDisk({})
    /\ \E d \in Datasets : \E res \in AllRemote(d) :
          remote = [e \in Datasets |-> IF e = d THEN res ELSE DefaultRemote(e)]
    /\ reachable = [d \in Datasets |-> TRUE]
    /\ InitCalls

NextRT ==
    \/ \E p \in active : Begin(p)
    \/ \E p \in active : Exists(p)
    \/ \E p \in active : Fetch(p)
    \/ \E p \in active : Store(p)
    \/ \E p \in active : Read(p)
    \/ \E p \in active : Insert(p)

SpecRT == InitRT /\ [][NextRT]_vars

-----------------------------------------------------------------------------
(* Views of the state the properties are stated over *)

\* the datasets whose cache file is among the files fs
Cached(fs) == {d \in Datasets : fs[local_path(d)] # NoFile}

FilesIn(fs) == {path \in Paths : fs[path] # NoFile}

OpsOf(c, kind) == {c.trace[k] : k \in {n \in DOMAIN c.trace : c.trace[n].op = kind}}

\* the datasets an invocation asked the network for
Requested(c) == {o.name : o \in OpsOf(c, "request")}

\* the paths an invocation wrote, or tried to write
WriteAttempts(c) == {o.path : o \in OpsOf(c, "write")}

\* the datasets an invocation began to handle
Handled(c) == {c.trace[k].name : k \in DOMAIN c.trace}

Failed(c) == c.outcome \in {"RetrievalFailure", "StorageFailure"}

\* a table at the value level: its columns and the typed values of its rows
ValueView(df) == [columns |-> df.columns, data |-> df.data]

AllUp(up) == \A d \in Datasets : up[d]

-----------------------------------------------------------------------------
(* C6 *)

JustStored(c) == c.pc = "insert" /\ c.trace[Len(c.trace)].op = "write"

\* C6: for every dataset and every table obtained from the network, loading the
\* cache file fetch_bqss_data stored for it gives a table equal to it at the
\* value level, for the CSV datasets and for the parquet dataset
C6_RoundTrip ==
    \A p \in active :
        LET c == call[p]
            d == df_metadata[c.i]
        IN JustStored(c) =>
             ValueView(ReadWith(CacheReader(d), disk[local_path(d)])) = ValueView(c.df)

\* the part of C6 that holds: the round trip of valeur and metadata
C6_RoundTripCsv ==
    \A p \in active :
        LET c == call[p]
            d == df_metadata[c.i]
        IN (JustStored(c) /\ FormatOf(d) = "csv") =>
             ValueView(ReadWith(CacheReader(d), disk[local_path(d)])) = ValueView(c.df)

-----------------------------------------------------------------------------
(* C1 *)

\* an invocation that ended, begun right after the invocation prev ended, both
\* on a writable directory with every source reachable, prev on an empty cache
SecondOfTwoFromEmpty(c) ==
    /\ c.pc = "done" /\ prev.pc = "done"
    /\ dir_state = "writable"
    /\ FilesIn(prev.start) = {}
    /\ AllUp(prev.up) /\ AllUp(c.up)

\* C1: two successive calls from an empty writable cache with the three sources
\* reachable leave exactly the three cache files, each returns a bundle with
\* exactly the three entries, and every table of the second call is
\* value-identical to the table of the first call
C1_TwiceFromEmpty ==
    \A p \in active :
        LET c == call[p]
        IN SecondOfTwoFromEmpty(c) =>
             /\ FilesIn(disk) = {local_path(d) : d \in Datasets}
             /\ Cardinality(FilesIn(disk)) = 3
             /\ prev.returned /\ Keys(prev.result) = Datasets
             /\ c.returned /\ Keys(c.result) = Datasets
             /\ \A d \in Datasets :
                    ValueView(c.result[d]) = ValueView(prev.result[d])

-----------------------------------------------------------------------------
(* C2 *)

\* C2: with the three cache files present a call asks the network for nothing,
\* writes nothing, and returns for every dataset the table read from its file
C2_AllCached ==
    \A p \in active :
        LET c == call[p]
        IN (c.pc = "done" /\ Cached(c.start) = Datasets) =>
             /\ c.returned
             /\ Requested(c) = {}
             /\ WriteAttempts(c) = {}
             /\ disk = c.start
             /\ \A d \in Datasets :
                    c.result[d] = ReadWith(CacheReader(d), c.start[local_path(d)])

\* a call on a full cache returned while no source was reachable
C2_Witness ==
    \E p \in active :
        /\ call[p].pc = "done" /\ call[p].returned
        /\ Cached(call[p].start) = Datasets
        /\ \A d \in Datasets : ~call[p].up[d]

-----------------------------------------------------------------------------
(* C3 *)

\* C3: whichever dataset is the one not cached, a call that succeeds asks the
\* network for that dataset only, creates its cache file and no other file,
\* and leaves the two files that were there unmodified
C3_OneMissing ==
    \A p \in active : \A m \in Datasets :
        LET c == call[p]
        IN (c.pc = "done" /\ c.returned /\ Cached(c.start) = Datasets \ {m}) =>
             /\ Requested(c) = {m}
             /\ WriteAttempts(c) = {local_path(m)}
             /\ FilesIn(disk) \ FilesIn(c.start) = {local_path(m)}
             /\ \A path \in Paths \ {local_path(m)} : disk[path] = c.start[path]

\* a call succeeded on a cache that lacked the first dataset of the registry
C3_Witness ==
    \E p \in active :
        /\ call[p].pc = "done" /\ call[p].returned
        /\ Cached(call[p].start) = Datasets \ {"valeur"}
        /\ disk[local_path("valeur")] # NoFile

-----------------------------------------------------------------------------
(* C4 *)

\* the first dataset of the registry that is not among the datasets have
FirstNotIn(have) ==
    df_metadata[CHOOSE k \in DOMAIN df_metadata :
                    /\ df_metadata[k] \notin have
                    /\ \A j \in 1..(k - 1) : df_metadata[j] \in have]

\* C4 as claimed: every call on a missing or read-only cache directory fails
\* with a StorageFailure, returns no bundle and fails with no other error kind
C4_Original ==
    \A p \in active :
        LET c == call[p]
        IN (c.pc = "done" /\ dir_state \in {"missing", "read_only"}) =>
             /\ c.outcome = "StorageFailure"
             /\ ~c.returned

\* C4 amended: on a missing or read-only cache directory nothing is ever
\* written; the call returns a bundle exactly when the three cache files are
\* already there; otherwise it fails at the first dataset that is not cached,
\* with a StorageFailure at its write, the first write attempt of the call, when
\* its source is reachable and with a RetrievalFailure, before any write
\* attempt, when it is not
C4_Amended ==
    \A p \in active :
        LET c == call[p]
            have == Cached(c.start)
        IN (c.pc = "done" /\ dir_state \in {"missing", "read_only"}) =>
             /\ disk = c.start
             /\ IF have = Datasets
                THEN c.returned /\ c.outcome = "ok" /\ WriteAttempts(c) = {}
                ELSE LET m == FirstNotIn(have)
                     IN /\ ~c.returned
                        /\ c.failed = m
                        /\ c.outcome = IF c.up[m] THEN "StorageFailure"
                                       ELSE "RetrievalFailure"
                        /\ WriteAttempts(c) = IF c.up[m] THEN {local_path(m)} ELSE {}
                        /\ c.up[m] => c.trace[Len(c.trace)].op = "write"

\* a call failed at its first write on a directory that does not exist
C4_Witness ==
    \E p \in active :
        /\ call[p].pc = "done"
        /\ dir_state = "missing"
        /\ call[p].outcome = "StorageFailure"
        /\ call[p].failed = "valeur"

-----------------------------------------------------------------------------
(* C5 *)

\* the datasets whose cache file an invocation wrote
Written(c) ==
    {d \in Datasets : /\ local_path(d) \in WriteAttempts(c)
                      /\ ~(c.outcome = "StorageFailure" /\ c.failed = d)}

\* nothing that was cached is lost or changed, what the call wrote before the
\* failure is there as written, and there is no file for the failed dataset
NoRollback(c, d) ==
    /\ \A path \in Paths : c.start[path] # NoFile => disk[path] = c.start[path]
    /\ \A e \in Written(c) :
          disk[local_path(e)] =
              WriteWith(CacheWriter(e), ReadWith(NetworkReader(e), remote[e]))
    /\ \A path \in {d} \X Formats : disk[path] = NoFile

\* C5 as claimed: if the source of a dataset that is not cached is unreachable
\* the call fails with a RetrievalFailure for that dataset, and no file is
\* rolled back or created for it
C5_Original ==
    \A p \in active : \A d \in Datasets :
        LET c == call[p]
        IN (c.pc = "done" /\ d \notin Cached(c.start) /\ ~c.up[d]) =>
             /\ c.outcome = "RetrievalFailure"
             /\ c.failed = d
             /\ NoRollback(c, d)

\* C5 amended: a call that asks the network for a dataset whose source is
\* unreachable fails with a RetrievalFailure for that dataset, without rollback
\* and without a file for it; on a writable directory the call does so for the
\* first dataset in registry order that is not cached and not reachable
C5_Amended ==
    \A p \in active : \A d \in Datasets :
        LET c == call[p]
            down == {e \in Datasets : e \notin Cached(c.start) /\ ~c.up[e]}
        IN /\ (c.pc = "done" /\ d \in Requested(c) /\ ~c.up[d]) =>
                /\ c.outcome = "RetrievalFailure"
                /\ c.failed = d
                /\ ~c.returned
                /\ NoRollback(c, d)
           /\ (c.pc = "done" /\ dir_state = "writable" /\ down # {}
                 /\ d = FirstNotIn(Datasets \ down)) =>
                d \in Requested(c)

\* the third retrieval failed after the call had written the first two files
C5_Witness ==
    \E p \in active :
        /\ call[p].pc = "done"
        /\ call[p].outcome = "RetrievalFailure"
        /\ call[p].failed = "metadata"
        /\ FilesIn(call[p].start) = {}
        /\ FilesIn(disk) = {local_path("valeur"), local_path("finess")}

-----------------------------------------------------------------------------
(* C7 *)

\* C7: a cache file that exists is never deleted or overwritten by a step of
\* any call, no call asks the network for a dataset whose file exists, and the
\* existence of the file alone decides between the cache read and the request
C7_CachePersists ==
    [][/\ \A path \in Paths : disk[path] # NoFile => disk'[path] = disk[path]
       /\ \A p \in active : \A d \in Datasets :
            /\ (d \in Requested(call'[p]) /\ d \notin Requested(call[p])) =>
                  disk[local_path(d)] = NoFile
            /\ (call[p].pc = "exists" /\ call'[p] # call[p] /\ d = df_metadata[call[p].i]) =>
                  call'[p].pc = IF disk[local_path(d)] # NoFile THEN "read" ELSE "fetch"
      ]_vars

\* two calls in a row returned a cache file that is not what the reachable
\* source serves now
C7_Witness ==
    \E p \in active :
        /\ call[p].pc = "done" /\ call[p].returned
        /\ prev.pc = "done" /\ prev.returned
        /\ call[p].up["valeur"]
        /\ disk[local_path("valeur")] = OldFile("valeur")
        /\ OldFile("valeur") # to_csv(pd_read_csv(remote["valeur"]))

-----------------------------------------------------------------------------
(* C8 *)

\* an invocation that ended, begun after an invocation that failed on a retrieval
RetryOfFailedRetrieval(c) ==
    c.pc = "done" /\ prev.pc = "done" /\ prev.outcome = "RetrievalFailure"

\* C8 as claimed: the re-invocation asks the network only for the dataset whose
\* retrieval failed in the earlier call
C8_Original ==
    \A p \in active :
        LET c == call[p]
        IN RetryOfFailedRetrieval(c) =>
             /\ Requested(c) \subseteq {prev.failed}
             /\ \A d \in Cached(c.start) :
                    d \notin Requested(c) /\ local_path(d) \notin WriteAttempts(c)

\* C8 amended: the re-invocation skips every cached dataset, asks the network
\* again for the dataset whose retrieval failed, and beyond it only for
\* datasets that are not cached and come later in the registry, which the
\* earlier call never reached
C8_Amended ==
    \A p \in active :
        LET c == call[p]
        IN RetryOfFailedRetrieval(c) =>
             /\ prev.failed \in Requested(c)
             /\ \A d \in Requested(c) :
                    /\ d \notin Cached(c.start)
                    /\ RegistryIndex(d) >= RegistryIndex(prev.failed)
                    /\ d # prev.failed => d \notin Handled(prev)
             /\ \A d \in Cached(c.start) :
                    d \notin Requested(c) /\ local_path(d) \notin WriteAttempts(c)

\* the retry of a call that failed on finess fetched finess and metadata and
\* read valeur from the cache
C8_Witness ==
    \E p \in active :
        /\ RetryOfFailedRetrieval(call[p])
        /\ prev.failed = "finess"
        /\ FilesIn(prev.start) = {}
        /\ call[p].returned
        /\ Requested(call[p]) = {"finess", "metadata"}

-----------------------------------------------------------------------------
(* C9 *)

\* the steps of an invocation that fail: a request to an unreachable source, a
\* write below a directory that takes no file
FailingOp(c, o) ==
    \/ o.op = "request" /\ ~c.up[o.name]
    \/ o.op = "write" /\ dir_state # "writable"

\* C9: a retrieval or storage step that fails is the last step of the call:
\* the call fails there for that dataset, returns no bundle, not even the
\* tables loaded so far, handles no later dataset and repeats no request
C9_FailFast ==
    \A p \in active :
        LET c == call[p]
        IN /\ \A k \in DOMAIN c.trace :
                FailingOp(c, c.trace[k]) =>
                    /\ k = Len(c.trace)
                    /\ c.pc = "done" /\ Failed(c)
                    /\ c.failed = c.trace[k].name
           /\ Failed(c) =>
                /\ c.pc = "done"
                /\ ~c.returned /\ c.result = EmptyBundle
                /\ FailingOp(c, c.trace[Len(c.trace)])
                /\ Handled(c) = {df_metadata[k] : k \in 1..RegistryIndex(c.failed)}
                /\ Cardinality({k \in DOMAIN c.trace :
                                   c.trace[k].name = c.failed /\ c.trace[k].op # "exists"})
                     = IF c.outcome = "StorageFailure" THEN 2 ELSE 1

\* the third dataset failed while two tables were loaded: none is returned
C9_Witness ==
    \E p \in active :
        /\ call[p].pc = "done" /\ Failed(call[p])
        /\ call[p].failed = "metadata"
        /\ Keys(call[p].df_dict) = {"valeur", "finess"}
        /\ call[p].result = EmptyBundle

-----------------------------------------------------------------------------
(* C10 *)

CachePaths == {<<"valeur", "csv">>, <<"finess", "parquet">>, <<"metadata", "csv">>}

\* C10: the only paths a call checks, reads or writes are valeur.csv,
\* finess.parquet and metadata.csv, and the request, the cache write and the
\* cache read of a dataset all use its one format: CSV for valeur and
\* metadata, parquet for finess
C10_FixedFormat ==
    /\ FilesIn(disk) \subseteq CachePaths
    /\ \A path \in FilesIn(disk) : disk[path].fmt = path[2]
    /\ \A p \in active : \A k \in DOMAIN call[p].trace :
          LET o == call[p].trace[k]
              fmt == IF o.name = "finess" THEN "parquet" ELSE "csv"
          IN /\ o.op \in {"exists", "read", "write"} =>
                  o.path \in CachePaths /\ o.path = <<o.name, fmt>>
             /\ o.op \in {"request", "read", "write"} => FormatOfCall(o.fn) = fmt

\* finess was fetched and written by one call and read from the cache by the next
C10_Witness ==
    \E p \in active :
        /\ call[p].pc = "done" /\ prev.pc = "done"
        /\ \E o \in OpsOf(prev, "request") : o.name = "finess" /\ o.fn = "pd.read_parquet"
        /\ \E o \in OpsOf(prev, "write") : o.name = "finess" /\ o.fn = "to_parquet"
        /\ \E o \in OpsOf(call[p], "read") : o.name = "finess" /\ o.fn = "pl.read_parquet"

-----------------------------------------------------------------------------
(* C11 *)

\* C11: on every successful call the table under the key finess is a Polars
\* DataFrame, and the engine of each returned table depends on the dataset
\* alone: a call that read it from the cache and the call before it, which may
\* have fetched it, return it in the same engine
C11_EngineByDataset ==
    \A p \in active :
        LET c == call[p]
        IN (c.pc = "done" /\ c.returned) =>
             /\ c.result["finess"].engine = "polars"
             /\ (prev.pc = "done" /\ prev.returned) =>
                   \A d \in Datasets : c.result[d].engine = prev.result[d].engine

-----------------------------------------------------------------------------
(* C12 *)

\* the order the claim names: valeur, then finess, then metadata
Rank(d) == CASE d = "valeur" -> 1 [] d = "finess" -> 2 [] d = "metadata" -> 3

\* C12: a call handles the datasets one at a time in the order valeur, finess,
\* metadata: every access of a dataset comes after all accesses of the
\* datasets before it, which are in the bundle by then, no dataset is requested
\* twice, and in a call begun on an empty cache a cache file exists only if
\* the files of all earlier datasets exist
C12_RegistryOrder ==
    \A p \in active :
        LET c == call[p]
        IN /\ \A k \in DOMAIN c.trace : \A l \in DOMAIN c.trace :
                k < l => Rank(c.trace[k].name) <= Rank(c.trace[l].name)
           /\ \A k \in DOMAIN c.trace :
                \A e \in Datasets :
                    Rank(e) < Rank(c.trace[k].name) => e \in Keys(c.df_dict)
           /\ \A e \in Keys(c.df_dict) : e \in Handled(c)
           /\ \A d \in Datasets :
                Cardinality({k \in DOMAIN c.trace :
                                c.trace[k].op = "request" /\ c.trace[k].name = d}) <= 1
           /\ (c.pc # "idle" /\ FilesIn(c.start) = {}) =>
                \A d \in Cached(disk) : \A e \in Datasets :
                    Rank(e) < Rank(d) => e \in Cached(disk)

\* a call begun on an empty cache is about to request metadata: valeur and
\* finess are written and in the bundle
C12_Witness ==
    \E p \in active :
        /\ call[p].pc = "fetch" /\ df_metadata[call[p].i] = "metadata"
        /\ FilesIn(call[p].start) = {}
        /\ Cached(disk) = {"valeur", "finess"}
        /\ Keys(call[p].df_dict) = {"valeur", "finess"}
        /\ Requested(call[p]) = {"valeur", "finess"}

-----------------------------------------------------------------------------
(* Two invocations at once on one empty, writable cache directory *)

InitConc ==
    /\ dir_state = "writable"
    /\ disk = InitDisk({})
    /\ remote = [d \in Datasets |-> DefaultRemote(d)]
    /\ reachable \in [Datasets -> BOOLEAN]
    /\ active = Procs
    /\ call = [p \in Procs |-> IdleCall]
    /\ prev = IdleCall

\* the invocations interleave step by step; the sources stay as they are
SpecConc == InitConc /\ [][NextRT]_vars

-----------------------------------------------------------------------------
(* C13 *)

\* the invocation saw the file of d absent and has the table from the network
Downloaded(c, d) ==
    /\ d \in Requested(c) /\ c.up[d]
    /\ ~(c.pc = "store" /\ df_metadata[c.i] = d)

\* C13: nothing guards the cache between the existence check and the write:
\* an invocation that saw a dataset's file absent and downloaded it writes the
\* file, whatever another invocation has written since the check
C13_Unprotected ==
    \A p \in active : \A d \in Datasets :
        LET c == call[p]
        IN Downloaded(c, d) =>
             /\ local_path(d) \in WriteAttempts(c)
             /\ ~(Failed(c) /\ c.failed = d)
             /\ disk[local_path(d)] # NoFile

\* both invocations, begun on the empty cache, saw valeur.csv absent, both
\* downloaded valeur and both wrote valeur.csv
C13_Witness ==
    /\ active = Procs
    /\ \A p \in Procs :
          /\ FilesIn(call[p].start) = {}
          /\ "valeur" \in Requested(call[p])
          /\ local_path("valeur") \in WriteAttempts(call[p])
          /\ call[p].pc = "insert" /\ df_metadata[call[p].i] = "valeur"

====
